---- MODULE Spec2Model ----
(***************************************************************************)
(* World Bank Economic Indicators ETL pipeline (src/main.py).              *)
(*                                                                         *)
(* Units.  A raw value is an integer number of thousandths; round(2) turns *)
(* it into an integer number of hundredths, the unit of every value of the *)
(* transformed dataset and of the DECIMAL(20, 2) columns.  A percentage    *)
(* change and a mean are exact rationals [num, den]; den = 0 stands for    *)
(* the IEEE results of a division by zero (num = 0: NaN, otherwise an      *)
(* infinity of the sign of num).                                           *)
(* country_name and indicator_name are determined by the codes in the API  *)
(* answer and the AUTO_INCREMENT ids are never read: they are left out.    *)
(***************************************************************************)
EXTENDS Integers, Sequences, FiniteSets, TLC

VARIABLES
    pc,          \* position of run_etl_pipeline
    raw,         \* raw_data: the extracted records, in order
    df,          \* transformer.df after transform()
    summaries,   \* what create_aggregations() returned
    connection,  \* loader.connection: "none", "open", "closed"
    db,          \* the committed content of the four tables
    txn,         \* the content as seen inside the open transaction
    result,      \* what run_etl_pipeline returned: "running", "True", "False"
    now,         \* the wall clock, one tick per pipeline run
    fail,        \* the load step that raised in this run and how far it got
    replay,      \* this run extracted the previous run's records again
    snap,        \* db as the previous run left it, and whether its load completed
    api          \* which records the World Bank API serves in this behaviour

vars == <<pc, raw, df, summaries, connection, db, txn, result, now, fail, replay, snap, api>>

-----------------------------------------------------------------------------
(* Bounds of the model *)

MaxRecords == 3   \* records of a batch handed to transform() directly
MaxLoadRecords == 2   \* records one pipeline run extracts
MaxRuns == 2   \* pipeline runs against one store

-----------------------------------------------------------------------------
(* Configuration and missing values *)

\* pandas' missing number (NaN) and missing object (None)
NaN == -999999
None == "None"

\* the sorted order of the codes, as groupby and sort_values order them
CountryOrder == <<"BRA", "CHN", "DEU", "GBR", "IND", "JPN", "USA">>
IndicatorOrder ==
    <<"FP.CPI.TOTL.ZG", "NE.EXP.GNFS.ZS", "NE.IMP.GNFS.ZS", "NY.GDP.MKTP.CD",
      "NY.GDP.MKTP.KD.ZG", "NY.GDP.PCAP.CD", "SL.UEM.TOTL.ZS", "SP.POP.TOTL">>

Rank(order, code) == CHOOSE i \in 1..Len(order) : order[i] = code

GDP == "NY.GDP.MKTP.CD"
GROWTH == "NY.GDP.MKTP.KD.ZG"
POP == "SP.POP.TOTL"

YearFloor == 2000

bins == <<2000, 2010, 2015, 2020, 2025>>
labels == <<"2000s", "2010-2015", "2015-2020", "2020s">>

continent_map(country_code) ==
    CASE country_code \in {"IND", "CHN", "JPN"} -> "Asia"
      [] country_code = "USA" -> "North America"
      [] country_code = "BRA" -> "South America"
      [] country_code \in {"GBR", "DEU"} -> "Europe"
      [] OTHER -> None

-----------------------------------------------------------------------------
(* Sequences *)

SelectSeqIdx(s, Keep(_)) ==
    LET F[i \in 0..Len(s)] ==
            IF i = 0 THEN <<>>
            ELSE IF Keep(i) THEN Append(F[i - 1], s[i]) ELSE F[i - 1]
    IN  F[Len(s)]

\* a stable ascending sort by an integer key
SortBy(s, Key(_)) ==
    LET Insert(t, x) ==
            LET pos == Cardinality({j \in 1..Len(t) : Key(t[j]) <= Key(x)})
            IN  SubSeq(t, 1, pos) \o <<x>> \o SubSeq(t, pos + 1, Len(t))
        F[i \in 0..Len(s)] == IF i = 0 THEN <<>> ELSE Insert(F[i - 1], s[i])
    IN  F[Len(s)]

SeqsUpTo(D, n) == UNION {[1..k -> D] : k \in 0..n}

-----------------------------------------------------------------------------
(* EconomicDataTransformer.transform *)

Key3(r) == <<r.country_code, r.indicator_code, r.year>>
Key2(r) == <<r.country_code, r.indicator_code>>

\* drop_duplicates with keep = 'last'
drop_duplicates_keep_last(rows) ==
    SelectSeqIdx(rows, LAMBDA i : \A j \in (i + 1)..Len(rows) : Key3(rows[j]) # Key3(rows[i]))

\* DataFrame.drop_duplicates(subset = key): the first row of every key stays
drop_duplicates(rows) ==
    SelectSeqIdx(rows, LAMBDA i : \A j \in 1..(i - 1) : Key3(rows[j]) # Key3(rows[i]))

\* DataFrame.dropna(subset = ['value'])
dropna(rows) == SelectSeqIdx(rows, LAMBDA i : rows[i].value # NaN)

decade(year) == IF year = NaN THEN NaN ELSE (year \div 10) * 10

\* pd.cut(year, bins, labels, include_lowest = True), right = True by default:
\* the intervals are closed on the right and the first one also holds bins[1]
cut(year) ==
    LET In(i) == /\ year # NaN
                 /\ year <= bins[i + 1]
                 /\ \/ year > bins[i]
                    \/ i = 1 /\ year = bins[1]
    IN  IF \E i \in 1..Len(labels) : In(i)
        THEN labels[CHOOSE i \in 1..Len(labels) : In(i)]
        ELSE "nan"

\* Series.round(2): thousandths to hundredths, a tie goes to the even neighbour
round2(value) ==
    LET q == value \div 10
        r == value % 10
    IN  IF r < 5 THEN q
        ELSE IF r > 5 THEN q + 1
        ELSE IF q % 2 = 0 THEN q ELSE q + 1

enrich(r) ==
    [country_code |-> r.country_code,
     indicator_code |-> r.indicator_code,
     year |-> r.year,
     value |-> round2(r.value),
     decade |-> decade(r.year),
     period |-> cut(r.year),
     continent |-> continent_map(r.country_code),
     extracted_at |-> r.extracted_at]

cleaned(rows) ==
    LET kept == dropna(drop_duplicates(rows))
    IN  [i \in 1..Len(kept) |-> enrich(kept[i])]

\* the assertions without the one on the year floor
quality_checks_without_floor(rows) ==
    /\ \A i \in 1..Len(rows) : rows[i].country_code # None
    /\ \A i \in 1..Len(rows) : rows[i].year # NaN

\* the three assertions at the end of transform()
quality_checks(rows) ==
    /\ \A i \in 1..Len(rows) : rows[i].country_code # None
    /\ \A i \in 1..Len(rows) : rows[i].year # NaN
    /\ \A i \in 1..Len(rows) : rows[i].year # NaN /\ rows[i].year >= YearFloor

-----------------------------------------------------------------------------
(* EconomicDataTransformer.create_aggregations *)

Groups(rows) == {Key2(rows[i]) : i \in 1..Len(rows)}

GroupRows(rows, g) == SelectSeqIdx(rows, LAMBDA i : Key2(rows[i]) = g)

\* the keys of a groupby, in sorted order
SortedGroups(rows) ==
    LET S == Groups(rows)
        Before(a, b) ==
            \/ Rank(CountryOrder, a[1]) < Rank(CountryOrder, b[1])
            \/ a[1] = b[1] /\ Rank(IndicatorOrder, a[2]) < Rank(IndicatorOrder, b[2])
    IN  CHOOSE s \in [1..Cardinality(S) -> S] :
            \A i, j \in 1..Cardinality(S) : i < j => Before(s[i], s[j])

\* groupby(...).last() without the sort by year
latest_values_unsorted(rows) ==
    LET groups == SortedGroups(rows)
        Last(g) == LET rs == GroupRows(rows, g) IN rs[Len(rs)]
    IN  [i \in 1..Len(groups) |->
            [country_code |-> groups[i][1],
             indicator_code |-> groups[i][2],
             year |-> Last(groups[i]).year,
             value |-> Last(groups[i]).value]]

\* df.sort_values('year').groupby([country_code, indicator_code]).last()
\* (last() takes, column by column, the last value that is not missing; only
\* year and value are read afterwards)
latest_values(rows) ==
    LET sorted == SortBy(rows, LAMBDA r : r.year)
        groups == SortedGroups(rows)
        Last(g, column) ==
            LET rs == GroupRows(sorted, g)
                present == {i \in 1..Len(rs) : rs[i][column] # NaN}
            IN  IF present = {} THEN NaN
                ELSE rs[CHOOSE i \in present : \A j \in present : j <= i][column]
    IN  [i \in 1..Len(groups) |->
            [country_code |-> groups[i][1],
             indicator_code |-> groups[i][2],
             year |-> Last(groups[i], "year"),
             value |-> Last(groups[i], "value")]]

\* the change relative to the new value
pct_change_of_value(value, previous) == [num |-> (value - previous) * 100, den |-> value]

\* value / previous value - 1, times 100
pct_change(value, previous) == [num |-> (value - previous) * 100, den |-> previous]

notna(change) == ~(change.num = 0 /\ change.den = 0)

\* df.sort_values([country_code, indicator_code, year]) with
\* groupby(...)['value'].pct_change() * 100, then the rows whose change is not NaN
yoy_sorted(rows) ==
    SortBy(SortBy(SortBy(rows, LAMBDA r : r.year),
                  LAMBDA r : Rank(IndicatorOrder, r.indicator_code)),
           LAMBDA r : Rank(CountryOrder, r.country_code))

yoy_changes(rows) ==
    LET sorted == yoy_sorted(rows)
        Change(i) ==
            IF i > 1 /\ Key2(sorted[i - 1]) = Key2(sorted[i])
            THEN pct_change(sorted[i].value, sorted[i - 1].value)
            ELSE [num |-> 0, den |-> 0]
        withChange == [i \in 1..Len(sorted) |->
                          [country_code |-> sorted[i].country_code,
                           indicator_code |-> sorted[i].indicator_code,
                           year |-> sorted[i].year,
                           value |-> sorted[i].value,
                           yoy_change |-> Change(i)]]
    IN  SelectSeqIdx(withChange, LAMBDA i : notna(withChange[i].yoy_change))

Sum(S, f(_)) ==
    LET R[T \in SUBSET S] ==
            IF T = {} THEN 0
            ELSE LET x == CHOOSE x \in T : TRUE IN f(x) + R[T \ {x}]
    IN  R[S]

\* df.groupby([country_code, indicator_code, decade])['value'].mean()
decade_averages(rows) ==
    LET keys == {<<rows[i].country_code, rows[i].indicator_code, rows[i].decade>> :
                    i \in 1..Len(rows)}
        Members(k) == {i \in 1..Len(rows) :
                          <<rows[i].country_code, rows[i].indicator_code, rows[i].decade>> = k}
    IN  [k \in keys |-> [num |-> Sum(Members(k), LAMBDA i : rows[i].value),
                         den |-> Cardinality(Members(k))]]

aggregations(rows) ==
    [latest_values |-> latest_values(rows),
     yoy_changes |-> yoy_changes(rows),
     decade_averages |-> decade_averages(rows)]

NoSummaries == [latest_values |-> <<>>, yoy_changes |-> <<>>, decade_averages |-> <<>>]

-----------------------------------------------------------------------------
(* MySQLLoader: the store *)

NULL == NaN

EmptyTable == [k \in {} |-> 0]

EmptyStore ==
    [economic_indicators |-> EmptyTable,
     latest_indicators |-> EmptyTable,
     yoy_changes |-> EmptyTable,
     country_summary |-> EmptyTable]

\* a quotient stored in a column of scale 0 or 2: the nearest multiple of the
\* unit, a tie going away from zero
RoundDiv(num, den) ==
    LET a == IF num < 0 THEN -num ELSE num
        b == IF den < 0 THEN -den ELSE den
        q == (2 * a + b) \div (2 * b)
    IN  IF (num < 0) # (den < 0) THEN -q ELSE q

\* TIMESTAMP ... ON UPDATE CURRENT_TIMESTAMP: set when the row changes
Touch(old, new, t) ==
    IF [f \in DOMAIN new \ {"updated_at"} |-> new[f]] =
       [f \in DOMAIN old \ {"updated_at"} |-> old[f]]
    THEN old
    ELSE [new EXCEPT !.updated_at = t]

\* an update clause that also sets loaded_at
upsert_main_loaded_at(store, row, t) ==
    LET k == Key3(row)
        tbl == store.economic_indicators
        new == [value |-> row.value,
                decade |-> row.decade,
                period |-> row.period,
                continent |-> row.continent,
                extracted_at |-> row.extracted_at,
                loaded_at |-> t]
    IN  [store EXCEPT !.economic_indicators =
            IF k \in DOMAIN tbl
            THEN [tbl EXCEPT ![k].value = row.value,
                             ![k].extracted_at = row.extracted_at,
                             ![k].loaded_at = t]
            ELSE tbl @@ (k :> new)]

\* INSERT INTO economic_indicators ... ON DUPLICATE KEY UPDATE value, extracted_at
upsert_main(store, row, t) ==
    LET k == Key3(row)
        tbl == store.economic_indicators
    IN  [store EXCEPT !.economic_indicators =
            IF k \in DOMAIN tbl
            THEN [tbl EXCEPT ![k].value = row.value,
                             ![k].extracted_at = row.extracted_at]
            ELSE tbl @@ (k :> [value |-> row.value,
                               decade |-> row.decade,
                               period |-> row.period,
                               continent |-> row.continent,
                               extracted_at |-> row.extracted_at,
                               loaded_at |-> t])]

\* INSERT IGNORE: the row of an existing key stays as it is
upsert_latest_ignore(store, row, t) ==
    LET k == Key2(row)
        tbl == store.latest_indicators
        new == [latest_year |-> row.year, latest_value |-> row.value, updated_at |-> t]
    IN  [store EXCEPT !.latest_indicators =
            IF k \in DOMAIN tbl THEN tbl ELSE tbl @@ (k :> new)]

\* INSERT INTO latest_indicators ... ON DUPLICATE KEY UPDATE latest_year, latest_value
upsert_latest(store, row, t) ==
    LET k == Key2(row)
        tbl == store.latest_indicators
        new == [latest_year |-> row.year, latest_value |-> row.value, updated_at |-> t]
    IN  [store EXCEPT !.latest_indicators =
            IF k \in DOMAIN tbl
            THEN [tbl EXCEPT ![k] = Touch(tbl[k], new, t)]
            ELSE tbl @@ (k :> new)]

\* INSERT INTO yoy_changes ... ON DUPLICATE KEY UPDATE value, yoy_change
upsert_yoy(store, row, t) ==
    LET k == Key3(row)
        tbl == store.yoy_changes
        new == [value |-> row.value,
                yoy_change |-> RoundDiv(row.yoy_change.num * 100, row.yoy_change.den)]
    IN  [store EXCEPT !.yoy_changes =
            IF k \in DOMAIN tbl THEN [tbl EXCEPT ![k] = new] ELSE tbl @@ (k :> new)]

\* an infinite change is no DECIMAL literal: the statement raises
executable(write) ==
    IF write.table = "yoy_changes" THEN write.row.yoy_change.den # 0 ELSE TRUE

execute(store, write, t) ==
    CASE write.table = "economic_indicators" -> upsert_main(store, write.row, t)
      [] write.table = "latest_indicators" -> upsert_latest(store, write.row, t)
      [] write.table = "yoy_changes" -> upsert_yoy(store, write.row, t)

\* the store after the first n statements of a step
execute_all(store, writes, n, t) ==
    LET F[i \in 0..n] == IF i = 0 THEN store ELSE execute(F[i - 1], writes[i], t)
    IN  F[n]

main_writes(rows) ==
    [i \in 1..Len(rows) |-> [table |-> "economic_indicators", row |-> rows[i]]]

aggregation_writes(s) ==
    [i \in 1..Len(s.latest_values) |->
        [table |-> "latest_indicators", row |-> s.latest_values[i]]]
    \o
    [i \in 1..Len(s.yoy_changes) |->
        [table |-> "yoy_changes", row |-> s.yoy_changes[i]]]

\* connection.commit() and connection.rollback()
commit(committed, working) == [db |-> working, txn |-> working]

rollback(committed, working) == [db |-> committed, txn |-> committed]

\* the SELECT of create_country_summary: the row of the greatest year of every
\* (country_code, indicator_code), grouped by country
summary_rows(main) ==
    LET rn1 == {k \in DOMAIN main :
                   \A k2 \in DOMAIN main :
                       (k2[1] = k[1] /\ k2[2] = k[2]) => k2[3] <= k[3]}
        countries == {k[1] : k \in rn1}
        Of(c, ind) == {k \in rn1 : k[1] = c /\ k[2] = ind}
        Max(c, ind) ==
            IF Of(c, ind) = {} THEN NULL
            ELSE main[CHOOSE k \in Of(c, ind) :
                        \A k2 \in Of(c, ind) : main[k2].value <= main[k].value].value
        Avg(c, ind) ==
            IF Of(c, ind) = {} THEN NULL
            ELSE RoundDiv(Sum(Of(c, ind), LAMBDA k : main[k].value),
                          Cardinality(Of(c, ind)))
    IN  [c \in countries |->
            [total_indicators |-> Cardinality({k[2] : k \in {k \in rn1 : k[1] = c}}),
             latest_gdp |-> Max(c, GDP),
             latest_population |->
                 IF Max(c, POP) = NULL THEN NULL ELSE RoundDiv(Max(c, POP), 100),
             avg_gdp_growth |-> Avg(c, GROWTH)]]

\* INSERT INTO country_summary ... SELECT ... ON DUPLICATE KEY UPDATE
upsert_summary(store, t) ==
    LET rows == summary_rows(store.economic_indicators)
        tbl == store.country_summary
        Row(c) == [total_indicators |-> rows[c].total_indicators,
                   latest_gdp |-> rows[c].latest_gdp,
                   latest_population |-> rows[c].latest_population,
                   avg_gdp_growth |-> rows[c].avg_gdp_growth,
                   updated_at |-> t]
    IN  [store EXCEPT !.country_summary =
            [c \in DOMAIN tbl \cup DOMAIN rows |->
                IF c \notin DOMAIN rows THEN tbl[c]
                ELSE IF c \in DOMAIN tbl THEN Touch(tbl[c], Row(c), t)
                ELSE Row(c)]]

-----------------------------------------------------------------------------
(* run_etl_pipeline *)

NoFail == [step |-> "none", written |-> 0]

Records(countries, indicators, years, values, t) ==
    [country_code : countries, indicator_code : indicators, year : years,
     value : values, extracted_at : {t}]

\* what the API may answer at time t:
\*   "faulty"     one series, with years before the floor, missing values and
\*                missing country codes among the records
\*   "series"     one series of two years, every record well formed
\*   "countries"  two countries, three indicators, one value a year
ApiRecords(t) ==
    CASE api = "faulty" ->
            Records({"IND", None}, {GDP}, {1999, 2010}, {NaN, 1000}, t)
      [] api = "series" ->
            Records({"IND"}, {GDP}, {2010, 2011}, {1000, 1100}, t)
      [] api = "countries" ->
            Records({"IND", "USA"}, {GDP, POP, GROWTH}, {2010}, {1000}, t)
            \cup Records({"IND", "USA"}, {GDP, POP, GROWTH}, {2011}, {2000}, t)

\* the end of a run: what it leaves for the next one
Left(completed, store) ==
    [ok |-> completed, db |-> store, all |-> snap.all /\ completed]

\* a new invocation: lines 404-415
run_etl_pipeline ==
    /\ pc \in {"idle", "done"}
    /\ now < MaxRuns
    /\ pc' = "extract"
    /\ now' = now + 1
    /\ result' = "running"
    /\ df' = <<>>
    /\ summaries' = NoSummaries
    /\ connection' = "none"
    /\ txn' = db
    /\ fail' = NoFail
    /\ replay' = FALSE
    /\ UNCHANGED <<raw, db, snap, api>>

\* the records the extractor returns, and the check for an empty result
Extracted(batch) ==
    /\ raw' = batch
    /\ IF batch = <<>>
       THEN pc' = "done" /\ result' = "False" /\ snap' = Left(FALSE, db)
       ELSE pc' = "transform" /\ UNCHANGED <<result, snap>>
    /\ UNCHANGED <<df, summaries, connection, db, txn, now, fail, api>>

extract_all_data ==
    /\ pc = "extract"
    /\ \E batch \in SeqsUpTo(ApiRecords(now), MaxLoadRecords) :
           /\ replay' = FALSE
           /\ Extracted(batch)

\* the same records once more, extraction times included, on the store the
\* previous run's completed load left
extract_again ==
    /\ pc = "extract"
    /\ snap.ok
    /\ replay' = TRUE
    /\ Extracted(raw)

transform ==
    /\ pc = "transform"
    /\ LET out == cleaned(raw)
       IN  IF quality_checks(out)
           THEN /\ df' = out
                /\ pc' = "aggregate"
                /\ UNCHANGED <<result, snap>>
           ELSE /\ df' = <<>>
                /\ pc' = "done"
                /\ result' = "False"
                /\ snap' = Left(FALSE, db)
    /\ UNCHANGED <<raw, summaries, connection, db, txn, now, fail, replay, api>>

create_aggregations ==
    /\ pc = "aggregate"
    /\ summaries' = aggregations(df)
    /\ pc' = "connect"
    /\ UNCHANGED <<raw, df, connection, db, txn, result, now, fail, replay, snap, api>>

\* an exception that reaches the except clause of run_etl_pipeline
Raised(step, written, store) ==
    /\ pc' = "done"
    /\ result' = "False"
    /\ fail' = [step |-> step, written |-> written]
    /\ snap' = Left(FALSE, store)

\* loader.connect(); when it returns False the load is skipped and the run
\* goes on to its last lines, which return True
connect ==
    /\ pc = "connect"
    /\ \E connected \in BOOLEAN :
           IF connected
           THEN /\ connection' = "open"
                /\ pc' = "create_tables"
                /\ UNCHANGED <<result, snap>>
           ELSE /\ connection' = "none"
                /\ pc' = "done"
                /\ result' = "True"
                /\ snap' = Left(FALSE, db)
    /\ UNCHANGED <<raw, df, summaries, db, txn, now, fail, replay, api>>

\* CREATE TABLE IF NOT EXISTS changes no row
create_tables ==
    /\ pc = "create_tables"
    /\ \E ok \in BOOLEAN :
           IF ok
           THEN pc' = "load_main_data" /\ UNCHANGED <<result, fail, snap>>
           ELSE Raised("create_tables", 0, db)
    /\ UNCHANGED <<raw, df, summaries, connection, db, txn, now, replay, api>>

\* a step of the load: its statements in one transaction; an Error at
\* statement written + 1 (or at the commit) rolls the transaction back
LoadStep(step, writes, next) ==
    \E written \in 0..Len(writes), ok \in BOOLEAN :
        /\ ok => written = Len(writes)
        /\ \A i \in 1..written : executable(writes[i])
        /\ LET working == execute_all(txn, writes, written, now)
               after == IF ok THEN commit(db, working) ELSE rollback(db, working)
           IN  /\ db' = after.db
               /\ txn' = after.txn
               /\ IF ok
                  THEN pc' = next /\ UNCHANGED <<result, fail, snap>>
                  ELSE Raised(step, written, after.db)
        /\ UNCHANGED <<raw, df, summaries, connection, now, replay, api>>

load_main_data ==
    /\ pc = "load_main_data"
    /\ LoadStep("load_main_data", main_writes(df), "load_aggregations")

load_aggregations ==
    /\ pc = "load_aggregations"
    /\ LoadStep("load_aggregations", aggregation_writes(summaries), "create_country_summary")

\* one statement, which takes effect as a whole or not at all, and the commit.
\* The except clause re-raises without a rollback: when the commit is what
\* raised, the rows the statement wrote stay pending in the transaction.
create_country_summary ==
    /\ pc = "create_country_summary"
    /\ \E raised \in {"nothing", "statement", "commit"} :
           LET working == IF raised = "statement" THEN txn ELSE upsert_summary(txn, now)
           IN  IF raised = "nothing"
               THEN /\ db' = commit(db, working).db
                    /\ txn' = commit(db, working).txn
                    /\ pc' = "close"
                    /\ UNCHANGED <<result, fail, snap>>
               ELSE /\ db' = db
                    /\ txn' = working
                    /\ Raised("create_country_summary",
                              IF raised = "commit" THEN 1 ELSE 0, db)
    /\ UNCHANGED <<raw, df, summaries, connection, now, replay, api>>

\* loader.close() and the last lines of run_etl_pipeline
close ==
    /\ pc = "close"
    /\ connection' = "closed"
    /\ pc' = "done"
    /\ result' = "True"
    /\ snap' = Left(TRUE, db)
    /\ UNCHANGED <<raw, df, summaries, db, txn, now, fail, replay, api>>

-----------------------------------------------------------------------------
(* Specifications *)

Start(served) ==
    /\ pc = "idle"
    /\ raw = <<>>
    /\ df = <<>>
    /\ summaries = NoSummaries
    /\ connection = "none"
    /\ db = EmptyStore
    /\ txn = EmptyStore
    /\ result = "running"
    /\ now = 0
    /\ fail = NoFail
    /\ replay = FALSE
    /\ snap = [ok |-> FALSE, db |-> EmptyStore, all |-> TRUE]
    /\ api = served

Next ==
    \/ run_etl_pipeline
    \/ extract_all_data
    \/ extract_again
    \/ transform
    \/ create_aggregations
    \/ connect
    \/ create_tables
    \/ load_main_data
    \/ load_aggregations
    \/ create_country_summary
    \/ close

\* the pipeline against an API that serves malformed records
Init == Start("faulty")
Spec == Init /\ [][Next]_vars

\* the pipeline, run after run, on well-formed records of one series
InitLoad == Start("series")
SpecLoad == InitLoad /\ [][Next]_vars

\* the pipeline on well-formed records of several countries and indicators
InitSummary == Start("countries")
SpecSummary == InitSummary /\ [][Next]_vars

\* transform() and create_aggregations() as functions of a given batch
Given(batches) ==
    /\ pc = "transform"
    /\ raw \in batches
    /\ df = <<>>
    /\ summaries = NoSummaries
    /\ connection = "none"
    /\ db = EmptyStore
    /\ txn = EmptyStore
    /\ result = "running"
    /\ now = 1
    /\ fail = NoFail
    /\ replay = FALSE
    /\ snap = [ok |-> FALSE, db |-> EmptyStore, all |-> TRUE]
    /\ api = "none"

NextTransform == transform \/ create_aggregations

\* every year around the bins
InitPeriod == Given(SeqsUpTo(Records({"IND"}, {GDP}, 1998..2027, {1000}, 1), MaxRecords))
SpecPeriod == InitPeriod /\ [][NextTransform]_vars

\* duplicated keys, missing values, missing and early years
InitDedup ==
    Given(SeqsUpTo(Records({"IND"}, {GDP, POP}, {NaN, 1999, 2010, 2011},
                           {NaN, 1000, 1105}, 1), MaxRecords))
SpecDedup == InitDedup /\ [][NextTransform]_vars

\* two series of up to three years, in every order, zero among the values
InitAgg ==
    Given(SeqsUpTo(Records({"IND", "USA"}, {GDP}, {2010, 2011, 2012},
                           {0, 1000, 1100, 1210}, 1), MaxRecords))
SpecAgg == InitAgg /\ [][NextTransform]_vars

-----------------------------------------------------------------------------
(* Properties *)

Transformed == pc \in {"aggregate", "connect"}

RawKeys == {Key3(raw[i]) : i \in 1..Len(raw)}

CountKey(rows, k) == Cardinality({i \in 1..Len(rows) : Key3(rows[i]) = k})

FirstOfKey(k) ==
    raw[CHOOSE i \in 1..Len(raw) :
            Key3(raw[i]) = k /\ \A j \in 1..(i - 1) : Key3(raw[j]) # k]

\* the records that are the first of their key and carry a value
Survivors ==
    {i \in 1..Len(raw) :
        raw[i].value # NaN /\ \A j \in 1..(i - 1) : Key3(raw[j]) # Key3(raw[i])}

Invalid(r) == r.country_code = None \/ r.year = NaN \/ r.year < YearFloor

LoadCompleted == connection = "closed"

\* the run is past transform(), or it ended before
PastTransform == pc \notin {"idle", "extract", "transform"}

Aborted ==
    /\ pc = "done"
    /\ result = "False"
    /\ df = <<>>
    /\ connection = "none"
    /\ fail = NoFail
    /\ txn = db

\* C1: loading the same transformed batch and its aggregations a second time,
\* on the store the first load left, leaves the four tables exactly as the
\* first load left them: the same keys and the same field values.
C1_LoadIdempotent == pc = "close" /\ replay => db = snap.db

C1_Witness ==
    /\ pc = "close"
    /\ replay
    /\ DOMAIN db.economic_indicators # {}
    /\ DOMAIN db.latest_indicators # {}
    /\ DOMAIN db.yoy_changes # {}
    /\ DOMAIN db.country_summary # {}

\* C2 as stated: run_etl_pipeline returns True exactly when extraction yielded
\* a record and the load completed.  The run that cannot connect returns True
\* without loading anything.
C2_SuccessIffLoaded ==
    pc = "done" => (result = "True" <=> (raw # <<>> /\ LoadCompleted))

LoadSteps == {"load_main_data", "load_aggregations", "create_country_summary"}

\* C3 as stated: a load step that raises leaves nothing of what it wrote,
\* neither committed nor pending in the transaction (all of it is rolled
\* back), the run ends with False and no later step runs, what earlier steps
\* committed stays, and every step ends its own transaction.
\* create_country_summary re-raises without a rollback.
C3_StepAtomic ==
    [][/\ (fail.step = "none" /\ fail'.step \in LoadSteps) =>
              /\ db' = db
              /\ txn' = db
              /\ pc' = "done"
              /\ result' = "False"
       /\ pc \in LoadSteps => txn' = db']_vars

\* C4, amended: when a record that survives the removal of duplicates (it is
\* the first of its key) and of missing values has a year below 2000 or no
\* country code or no year, transform() fails with no output and the run ends
\* with False, without a connection to the store and without any write.
C4_ValidationFatal ==
    PastTransform /\ (\E i \in Survivors : Invalid(raw[i])) => Aborted

C4_Witness ==
    /\ pc = "done"
    /\ result = "False"
    /\ \E i \in Survivors : raw[i].year < YearFloor /\ raw[i].year # NaN

\* C4 as stated: any record with a year below 2000 or no country code or no
\* year makes transform() fail and the run abort.
C4_AnyInvalidRecordFatal ==
    PastTransform /\ (\E i \in 1..Len(raw) : Invalid(raw[i])) => Aborted

\* C5, amended: when transform() succeeds its output holds at most one row
\* for every key of the input: one row when the first input record of that key
\* has a value, none when that record's value is missing.
C5_OneRowPerKey ==
    Transformed =>
        \A k \in RawKeys :
            CountKey(df, k) = IF FirstOfKey(k).value # NaN THEN 1 ELSE 0

C5_Witness ==
    /\ Transformed
    /\ \E k \in RawKeys :
           /\ CountKey(raw, k) > 1
           /\ \E i \in 1..Len(raw) : Key3(raw[i]) = k /\ raw[i].value = NaN
           /\ CountKey(df, k) = 1

\* C5 as stated: the output of transform() holds exactly one row for every
\* key that several input records share, also when some of them have a missing
\* value.
C5_ExactlyOneRowPerDuplicatedKey ==
    Transformed => \A k \in RawKeys : CountKey(raw, k) > 1 => CountKey(df, k) = 1

SameGroup(i, j) == Key2(df[i]) = Key2(df[j])

\* C6: latest_values holds exactly one row for every (country_code,
\* indicator_code) group of the transformed dataset, with the year and the
\* value of the group's row of the greatest year, in whatever order the rows
\* came.
C6_LatestIsMaxYear ==
    pc = "connect" =>
        LET L == summaries.latest_values
        IN  /\ \A g \in Groups(df) :
                   Cardinality({i \in 1..Len(L) : Key2(L[i]) = g}) = 1
            /\ \A i \in 1..Len(L) :
                   \E j \in 1..Len(df) :
                       /\ Key2(df[j]) = Key2(L[i])
                       /\ df[j].year = L[i].year
                       /\ df[j].value = L[i].value
                       /\ \A m \in 1..Len(df) : SameGroup(m, j) => df[m].year <= df[j].year

C6_Witness ==
    /\ pc = "connect"
    /\ \E j \in 1..Len(df) :
           /\ Cardinality({m \in 1..Len(df) : SameGroup(m, j)}) = 3
           /\ \A m \in 1..Len(df) : SameGroup(m, j) => m >= j /\ df[m].year <= df[j].year
           /\ \E i \in 1..Len(summaries.latest_values) :
                  Key3(summaries.latest_values[i]) = Key3(df[j])

HasPredecessor(j) == \E m \in 1..Len(df) : SameGroup(m, j) /\ df[m].year < df[j].year

\* the row of the same group with the greatest earlier year
Predecessor(j) ==
    CHOOSE m \in 1..Len(df) :
        /\ SameGroup(m, j)
        /\ df[m].year < df[j].year
        /\ \A n \in 1..Len(df) :
               SameGroup(n, j) /\ df[n].year < df[j].year => df[n].year <= df[m].year

YoyRowsOf(j) ==
    {i \in 1..Len(summaries.yoy_changes) : Key3(summaries.yoy_changes[i]) = Key3(df[j])}

\* change = (value - previous) / previous * 100; a division by zero gives an
\* infinity of the sign of the value
IsChange(change, value, previous) ==
    IF previous = 0
    THEN change.den = 0 /\ (change.num > 0 <=> value > 0) /\ (change.num < 0 <=> value < 0)
    ELSE change.den # 0 /\ change.num * previous = (value - previous) * 100 * change.den

YoyRows(Emitted(_)) ==
    LET Y == summaries.yoy_changes
    IN  /\ \A i \in 1..Len(Y) : \E j \in 1..Len(df) : Key3(df[j]) = Key3(Y[i])
        /\ \A j \in 1..Len(df) :
               /\ Cardinality(YoyRowsOf(j)) = IF Emitted(j) THEN 1 ELSE 0
               /\ \A i \in YoyRowsOf(j) :
                      /\ HasPredecessor(j)
                      /\ Y[i].value = df[j].value
                      /\ IsChange(Y[i].yoy_change, df[j].value, df[Predecessor(j)].value)

\* C7, amended: yoy_changes holds exactly one row for every row that has a
\* predecessor in its group sorted by year, unless the value and the
\* predecessor's value are both zero (0 / 0 is NaN and the row is dropped),
\* and none for the earliest year of a group; the yoy_change of a row is
\* (value - predecessor value) / predecessor value * 100, the predecessor being
\* the nearest earlier year present; it is an infinity when only the
\* predecessor's value is zero.
C7_YoyRows ==
    pc = "connect" =>
        YoyRows(LAMBDA j : /\ HasPredecessor(j)
                           /\ ~(df[j].value = 0 /\ df[Predecessor(j)].value = 0))

\* values 1.00, 1.10, 1.21 (in hundredths: 100, 110, 121) at 2010, 2011, 2012
\* give (2011, 110, 10) and (2012, 121, 10)
C7_Witness ==
    /\ pc = "connect"
    /\ \E a, b, c \in 1..Len(df) :
           /\ Key3(df[a]) = <<"IND", GDP, 2010>> /\ df[a].value = 100
           /\ Key3(df[b]) = <<"IND", GDP, 2011>> /\ df[b].value = 110
           /\ Key3(df[c]) = <<"IND", GDP, 2012>> /\ df[c].value = 121
    /\ Len(summaries.yoy_changes) = 2
    /\ \A i \in 1..2 :
           LET y == summaries.yoy_changes[i]
           IN  /\ y.year = 2010 + i
               /\ y.value = IF i = 1 THEN 110 ELSE 121
               /\ y.yoy_change.den # 0
               /\ y.yoy_change.num = 10 * y.yoy_change.den

\* C7 as stated: exactly one row for every row that has a predecessor.
C7_RowForEveryPredecessor ==
    pc = "connect" => YoyRows(LAMBDA j : HasPredecessor(j))

PersistedYears(g) ==
    {k[3] : k \in {k \in DOMAIN db.economic_indicators : k[1] = g[1] /\ k[2] = g[2]}}

MaxOf(S) == CHOOSE x \in S : \A y \in S : y <= x

\* the value persisted for the indicator at its most recent year, if any
LatestPersisted(c, ind) ==
    IF PersistedYears(<<c, ind>>) = {} THEN NULL
    ELSE db.economic_indicators[<<c, ind, MaxOf(PersistedYears(<<c, ind>>))>>].value

\* the mean of the values persisted for the indicator over all its years, as a
\* column of two decimals holds it
MeanPersisted(c, ind) ==
    IF PersistedYears(<<c, ind>>) = {} THEN NULL
    ELSE RoundDiv(Sum(PersistedYears(<<c, ind>>),
                      LAMBDA y : db.economic_indicators[<<c, ind, y>>].value),
                  Cardinality(PersistedYears(<<c, ind>>)))

\* C8 as stated: after create_country_summary, country_summary holds one row
\* for every country of economic_indicators, with the number of its distinct
\* indicators, its GDP and its population of the most recent year, and the
\* mean of its GDP growth over all persisted years.  The query averages over
\* the most recent year only.
C8_CountrySummary ==
    pc = "close" =>
        LET main == db.economic_indicators
            summary == db.country_summary
        IN  /\ DOMAIN summary = {k[1] : k \in DOMAIN main}
            /\ \A c \in DOMAIN summary :
                   /\ summary[c].total_indicators =
                          Cardinality({k[2] : k \in {k \in DOMAIN main : k[1] = c}})
                   /\ summary[c].latest_gdp = LatestPersisted(c, GDP)
                   /\ IF LatestPersisted(c, POP) = NULL
                      THEN summary[c].latest_population = NULL
                      ELSE summary[c].latest_population * 100 = LatestPersisted(c, POP)
                   /\ summary[c].avg_gdp_growth = MeanPersisted(c, GROWTH)

ClaimedPeriod(year) ==
    CASE year >= 2000 /\ year <= 2009 -> "2000s"
      [] year >= 2010 /\ year <= 2014 -> "2010-2015"
      [] year >= 2015 /\ year <= 2019 -> "2015-2020"
      [] year >= 2020 /\ year <= 2025 -> "2020s"
      [] OTHER -> "nan"

\* C9 as stated: a bin holds its lower bound, so 2010, 2015 and 2020 fall in
\* the bin that starts at them, and a year above 2025 is left unclassified
\* without making transform() fail.  pd.cut closes the bins on the right.
C9_InclusiveLowerBounds ==
    /\ Transformed => \A j \in 1..Len(df) : df[j].period = ClaimedPeriod(df[j].year)
    /\ pc = "done" => \E i \in 1..Len(raw) : raw[i].year < YearFloor

\* C10, amended: after runs that all completed their load, every row of
\* latest_indicators names a year persisted in economic_indicators for its key
\* and that row's value; it is the greatest year of the latest batch that held
\* the key, which is below the greatest persisted year when that batch covered
\* earlier years only.
C10_LatestIsPersisted ==
    pc = "done" /\ snap.all =>
        \A g \in DOMAIN db.latest_indicators :
            LET row == db.latest_indicators[g]
                k == <<g[1], g[2], row.latest_year>>
            IN  /\ k \in DOMAIN db.economic_indicators
                /\ db.economic_indicators[k].value = row.latest_value
                /\ row.latest_year <= MaxOf(PersistedYears(g))
                /\ g \in Groups(df) =>
                       /\ \E j \in 1..Len(df) : Key2(df[j]) = g /\ df[j].year = row.latest_year
                       /\ \A j \in 1..Len(df) : Key2(df[j]) = g => df[j].year <= row.latest_year

C10_Witness ==
    /\ pc = "done"
    /\ snap.all
    /\ now >= 2
    /\ \E g \in DOMAIN db.latest_indicators :
           db.latest_indicators[g].latest_year < MaxOf(PersistedYears(g))

\* C10 as stated: after runs that all completed their load, every row of
\* latest_indicators has the greatest year persisted in economic_indicators
\* for its key and that row's value.
C10_LatestIsMaxPersisted ==
    pc = "done" /\ snap.all =>
        \A g \in DOMAIN db.latest_indicators :
            /\ db.latest_indicators[g].latest_year = MaxOf(PersistedYears(g))
            /\ db.latest_indicators[g].latest_value = LatestPersisted(g[1], g[2])

====
